---- MODULE Spec2Model ----
(***************************************************************************)
(* Interrupt driven SPI library for AVR (AVR_SPI_with_interrupts.cpp).     *)
(*                                                                         *)
(* Slave side: the receive interrupt ISR(SPI_STC_vect) frames incoming     *)
(* bytes into SPI_buffer, the foreground polls SPI_readAll, which moves a  *)
(* framed message into SPI_data.  The ISR runs to completion and may fire  *)
(* between any two steps of the foreground: the library never masks the    *)
(* interrupt.                                                              *)
(***************************************************************************)
EXTENDS Integers, Sequences, FiniteSets, TLC

\* AVR_SPI_char_defines.h:13
DATA_END_CHAR == 13

\* AVR_SPI_char_defines.h:14 sets DATA_LENGTH to 50 + 1.  The arrays are
\* scaled down here; every formula below is stated in terms of DATA_LENGTH.
DATA_LENGTH == 3

\* Bound on the number of bytes the bus delivers to the receive interrupt.
MaxBytes == 5

\* Bound on how far past SPI_buffer the copy loop's index is followed
\* (int i, line 141).
MaxScan == 5

\* AVR_SPI_with_interrupts.h:53-54
INVERTED_SS_CONTROL == 0
DEFAULT_SS_CONTROL == 1

\* AVR_SPI_with_interrupts.cpp:57, the byte SPI_masterReadUint8_t clocks out.
DUMMY_BYTE == 255

\* Bound on the number of calls the master's program makes.
MaxCalls == 2

\* Bound on the number of bytes delivered between uninterrupted polls.
MaxStream == 6

\* Bound on the number of bytes the slave has received from other senders
\* before the hex example's master sends its number.
MaxPrior == 4

\* The byte values the bus delivers.  Payload bytes: zero, a nonzero byte, and
\* the byte whose value is DATA_LENGTH (in the source's build 51, the
\* character '3'); and the terminator.
Payload == {0, 1, DATA_LENGTH}
Bytes == Payload \cup {DATA_END_CHAR}

VARIABLES
    SPI_data,       \* uint8_t SPI_data[DATA_LENGTH]            (line 78)
    SPI_buffer,     \* volatile uint8_t SPI_buffer[DATA_LENGTH] (line 79)
    dataIndex,      \* volatile uint8_t dataIndex               (line 80)
    dataReceived,   \* volatile bool dataReceived               (line 82)
    receivedBytes,  \* volatile size_t receivedBytes            (line 83)
    pc,             \* the foreground's position in main / SPI_readAll
    size,           \* flushBuffer's parameter size             (line 110)
    i,              \* the loop index of the loop the foreground is in
    retv,           \* SPI_readAll's return value, at pc = "ret"
    rx,             \* history: the bytes delivered to the ISR, in order
    callStart,      \* history: Len(rx) when the current call began
    nTrue,          \* history: how many calls have returned true
    fresh,          \* history: the last call returned true, no byte since it began
    polled,         \* history: a call began and ended after the last terminator
    owed,           \* history: a terminator has arrived since the last true return
    prompt,         \* history: no byte arrived inside a call or on a pending message
    ub,             \* history: an access outside an array has happened
    overrun,        \* history: a terminator arrived on a message not yet taken up
    clean,          \* history: no byte arrived inside a swap or on a pending message
    lastPoll,       \* history: Len(rx) when the last call returned (atomic polls only)
    layout,         \* the build: where the linker put the globals
    PORT,           \* the port register *SS_PORTx
    SPDR,           \* the SPI data register
    SPIF,           \* the transfer complete flag of SPSR
    spifSeen,       \* hardware: SPSR has been read with SPIF set
    busy,           \* hardware: a transfer is being shifted
    mpc,            \* the master's position in its program
    op,             \* the operation the master is in
    SS_PORTxn,      \* parameter: the bit of the port that drives the select line
    SSmode,         \* parameter: the polarity
    data,           \* uint8_t data (SPI_transmitUint8_t, SPI_receiveUint8_t)
    str,            \* the string char *data points to at the call (SPI_transmitString)
    ptr,            \* how far the operation has advanced (data++, line 237)
    numBytes,       \* parameter of SPI_transmitHex
    hexNumber,      \* parameter of SPI_transmitHex
    hexI,           \* int i of SPI_transmitHex (line 313)
    pullHigh,       \* local of the four operations
    pullLow,        \* local of the four operations
    term,           \* the operation has started its last transfer
    sent,           \* history: the bytes this call wrote to SPDR
    done,           \* history: how many transfers of this call have completed
    calls,          \* history: how many calls have returned
    array,          \* argument of hexArrayToUint64_t (with size = its length)
    str1,           \* argument of SPI_strcmp
    str2,           \* argument of SPI_strcmp
    combinedHex,    \* what hexArrayToUint64_t returned
    cmp,            \* what SPI_strcmp returned
    applied         \* which of the two functions have been called

slaveVars == <<SPI_data, SPI_buffer, dataIndex, dataReceived, receivedBytes,
               pc, size, i, retv, rx, callStart, nTrue, fresh, polled, owed, prompt, ub,
               overrun, clean, lastPoll, layout>>

masterVars == <<PORT, SPDR, SPIF, spifSeen, busy, mpc, op, SS_PORTxn, SSmode, data, str,
                ptr, numBytes, hexNumber, hexI, pullHigh, pullLow, term, sent, done, calls>>

pureVars == <<array, str1, str2, combinedHex, cmp, applied>>

vars == <<slaveVars, masterVars, pureVars>>

Index == 0 .. (DATA_LENGTH - 1)

\* uint8_t and (on AVR) 16-bit size_t arithmetic.
U8(x) == x % 256
U16(x) == x % 65536

\* The five globals of lines 78-83 as one record, for the steps that touch
\* several of them.
Globals ==
    [SPI_data |-> SPI_data, SPI_buffer |-> SPI_buffer, dataIndex |-> dataIndex,
     dataReceived |-> dataReceived, receivedBytes |-> receivedBytes]

\* Where the linker put the five globals.  The source leaves it open, and
\* it decides what an access past the end of an array touches, so the model
\* follows three builds: "apart" (nothing of the library lies behind either
\* array), "declared" (the globals lie in their order of definition, lines
\* 78-83) and "reversed" (in the opposite order).
Layouts == {"apart", "declared", "reversed"}

\* The address of arr[0]; receivedBytes takes two bytes, low byte first.
Base(lay, arr) ==
    CASE lay = "declared" -> IF arr = "SPI_data" THEN 0 ELSE DATA_LENGTH
      [] lay = "reversed" -> IF arr = "SPI_buffer" THEN 4 ELSE 4 + DATA_LENGTH
      [] OTHER -> 0

\* The object at address a: <<kind, element>>.
ObjectAt(lay, a) ==
    CASE lay = "declared" ->
            IF a < DATA_LENGTH THEN <<"SPI_data", a>>
            ELSE IF a < 2 * DATA_LENGTH THEN <<"SPI_buffer", a - DATA_LENGTH>>
            ELSE IF a = 2 * DATA_LENGTH THEN <<"dataIndex", 0>>
            ELSE IF a = 2 * DATA_LENGTH + 1 THEN <<"dataReceived", 0>>
            ELSE IF a = 2 * DATA_LENGTH + 2 THEN <<"receivedBytes", 0>>
            ELSE IF a = 2 * DATA_LENGTH + 3 THEN <<"receivedBytes", 1>>
            ELSE <<"none", 0>>
      [] lay = "reversed" ->
            IF a = 0 THEN <<"receivedBytes", 0>>
            ELSE IF a = 1 THEN <<"receivedBytes", 1>>
            ELSE IF a = 2 THEN <<"dataReceived", 0>>
            ELSE IF a = 3 THEN <<"dataIndex", 0>>
            ELSE IF a < 4 + DATA_LENGTH THEN <<"SPI_buffer", a - 4>>
            ELSE IF a < 4 + 2 * DATA_LENGTH THEN <<"SPI_data", a - 4 - DATA_LENGTH>>
            ELSE <<"none", 0>>
      [] OTHER -> <<"none", 0>>

\* What arr[idx] denotes: the element, or for idx past the end whatever the
\* build put there.
Target(lay, arr, idx) ==
    IF idx < DATA_LENGTH THEN <<arr, idx>>
    ELSE IF lay = "apart" THEN <<"none", 0>>
    ELSE ObjectAt(lay, Base(lay, arr) + idx)

\* arr[idx] = val.  No array access in the library is bounds checked.
Store(m, arr, idx, val) ==
    LET t == Target(layout, arr, idx)
    IN  CASE t[1] = "none" -> m
          [] t[1] = "dataIndex" -> [m EXCEPT !.dataIndex = val]
          [] t[1] = "dataReceived" -> [m EXCEPT !.dataReceived = (val # 0)]
          [] t[1] = "receivedBytes" ->
                [m EXCEPT !.receivedBytes =
                    IF t[2] = 0 THEN (@ \div 256) * 256 + val
                    ELSE val * 256 + (@ % 256)]
          [] OTHER -> [m EXCEPT ![t[1]][t[2]] = val]

\* The value of arr[idx]; junk is what a read of memory outside the five
\* globals finds.
Load(m, arr, idx, junk) ==
    LET t == Target(layout, arr, idx)
    IN  CASE t[1] = "none" -> junk
          [] t[1] = "dataIndex" -> m.dataIndex
          [] t[1] = "dataReceived" -> IF m.dataReceived THEN 1 ELSE 0
          [] t[1] = "receivedBytes" ->
                IF t[2] = 0 THEN m.receivedBytes % 256 ELSE m.receivedBytes \div 256
          [] OTHER -> m[t[1]][t[2]]

\* The values a read at arr[idx] can find: one value, unless it reads memory
\* outside the five globals.
Junk(arr, idx) ==
    IF Target(layout, arr, idx)[1] = "none" THEN Bytes ELSE {0}

--------------------------------------------------------------------------
(* ISR(SPI_STC_vect), lines 86-102 *)

IsrIsPayload_Always(v) == TRUE

\* line 90: the byte just stored is compared with the terminator.
IsrIsPayload(v) == v # DATA_END_CHAR

\* lines 93-94: a payload byte advances the cursor and the byte count.
IsrCount(m) ==
    [m EXCEPT !.dataIndex = U8(@ + 1), !.receivedBytes = U16(@ + 1)]

IsrTerminate_KeepIndex(m) == [m EXCEPT !.dataReceived = TRUE]

\* lines 99-100: the terminator raises the flag and resets the cursor.
IsrTerminate(m) ==
    [m EXCEPT !.dataReceived = TRUE, !.dataIndex = 0]

IsrRun_SkipsTerminator(m, b, junk) ==
    IF IsrIsPayload(b)
    THEN IsrCount(Store(m, "SPI_buffer", m.dataIndex, b))
    ELSE IsrTerminate(m)

\* The whole handler for received byte b (SPDR = b).  It stores first
\* (line 88), then reads the stored element back (line 90): both accesses
\* index SPI_buffer with the volatile dataIndex, unchecked.  The read finds
\* b again unless the store landed on dataIndex itself and moved it.
IsrRun(m, b, junk) ==
    LET m1 == Store(m, "SPI_buffer", m.dataIndex, b)
        v == IF m1.dataIndex = m.dataIndex THEN b
             ELSE Load(m1, "SPI_buffer", m1.dataIndex, junk)
    IN  IF IsrIsPayload(v) THEN IsrCount(m1) ELSE IsrTerminate(m1)

SetGlobals(m) ==
    /\ SPI_data' = m.SPI_data
    /\ SPI_buffer' = m.SPI_buffer
    /\ dataIndex' = m.dataIndex
    /\ dataReceived' = m.dataReceived
    /\ receivedBytes' = m.receivedBytes

\* The steps of SPI_readAll from having seen dataReceived = true until it has
\* cleared dataReceived and receivedBytes.
InSwap == pc \in {"flushArg", "flush", "copyTest", "copyStore", "zero",
                  "clearFlag", "clearCount", "astray"}

\* The handler run on the slave for the received byte b.
IsrBody(b) ==
    /\ \E junk \in Junk("SPI_buffer", Store(Globals, "SPI_buffer", dataIndex, b).dataIndex) :
          /\ SetGlobals(IsrRun(Globals, b, junk))
          /\ rx' = Append(rx, b)
          /\ polled' = (polled /\ b # DATA_END_CHAR)
          /\ owed' = (owed \/ b = DATA_END_CHAR)
          /\ overrun' = (overrun \/ (b = DATA_END_CHAR /\ dataReceived /\ ~InSwap))
    /\ ub' = (ub \/ dataIndex >= DATA_LENGTH)
    /\ fresh' = FALSE
    /\ prompt' = (prompt /\ pc = "main" /\ ~dataReceived)
    /\ clean' = (clean /\ ~InSwap /\ ~dataReceived)
    /\ UNCHANGED <<layout, pc, size, i, retv, callStart, nTrue, lastPoll>>

\* The interrupt, for a byte from a sender the model leaves open.
ISR ==
    /\ Len(rx) < MaxBytes
    /\ \E b \in Bytes : IsrBody(b)
    /\ UNCHANGED <<pureVars, masterVars>>

--------------------------------------------------------------------------
(* The foreground: main's loop calling SPI_readAll, lines 134-161 *)

\* main: while(1) { if(SPI_readAll() == true) ... }
Call ==
    /\ pc = "main"
    /\ pc' = "test"
    /\ callStart' = Len(rx)
    /\ UNCHANGED <<pureVars, masterVars, layout, overrun, clean, lastPoll, SPI_data, SPI_buffer, dataIndex, dataReceived, receivedBytes,
                   size, i, retv, rx, nTrue, fresh, polled, owed, prompt, ub>>

ReadAllTaken_Always == TRUE

\* line 136: the condition under which SPI_readAll runs the swap.
ReadAllTaken == dataReceived = TRUE

\* line 136: if(dataReceived == true), else line 160: return false.
ReadAllTest ==
    /\ pc = "test"
    /\ IF ReadAllTaken
       THEN pc' = "flushArg" /\ retv' = retv
       ELSE pc' = "ret" /\ retv' = FALSE
    /\ UNCHANGED <<pureVars, masterVars, layout, overrun, clean, lastPoll, SPI_data, SPI_buffer, dataIndex, dataReceived, receivedBytes,
                   size, i, rx, callStart, nTrue, fresh, polled, owed, prompt, ub>>

\* line 139: the number of elements flushBuffer is asked to clear.
FlushSize == receivedBytes

\* line 139: the call flushBuffer(SPI_data, receivedBytes) reads the volatile
\* counter once, as the argument.
ReadAllFlushArg ==
    /\ pc = "flushArg"
    /\ size' = FlushSize
    /\ i' = 0
    /\ pc' = "flush"
    /\ UNCHANGED <<pureVars, masterVars, layout, overrun, clean, lastPoll, SPI_data, SPI_buffer, dataIndex, dataReceived, receivedBytes,
                   retv, rx, callStart, nTrue, fresh, polled, owed, prompt, ub>>

\* flushBuffer, lines 112-113: one iteration, or the loop's exit into
\* line 141 (int i = 0).
ReadAllFlush ==
    /\ pc = "flush"
    /\ IF i < size
       THEN /\ SetGlobals(Store(Globals, "SPI_data", i, 0))
            /\ i' = i + 1
            /\ pc' = "flush"
            /\ ub' = (ub \/ i >= DATA_LENGTH)
       ELSE /\ i' = 0
            /\ pc' = "copyTest"
            /\ UNCHANGED <<SPI_data, SPI_buffer, dataIndex, dataReceived,
                           receivedBytes, ub>>
    /\ UNCHANGED <<pureVars, masterVars, layout, overrun, clean, lastPoll, size, retv, rx, callStart, nTrue, fresh, polled, owed, prompt>>

CopyDone_AtZero(v) == v = 0 \/ v = DATA_END_CHAR

\* line 143: the copy loop runs until it reads the terminator.
CopyDone(v) == v = DATA_END_CHAR

\* line 143: while(SPI_buffer[i] != DATA_END_CHAR), one volatile read.  The
\* loop has no other exit: past MaxScan elements behind the array the model
\* stops following it (pc = "astray").
ReadAllCopyTest ==
    /\ pc = "copyTest"
    /\ IF i < DATA_LENGTH + MaxScan
       THEN \E junk \in Junk("SPI_buffer", i) :
              IF CopyDone(Load(Globals, "SPI_buffer", i, junk))
              THEN i' = 0 /\ pc' = "zero"
              ELSE i' = i /\ pc' = "copyStore"
       ELSE i' = i /\ pc' = "astray"
    /\ ub' = (ub \/ i >= DATA_LENGTH)
    /\ UNCHANGED <<pureVars, masterVars, layout, overrun, clean, lastPoll, SPI_data, SPI_buffer, dataIndex, dataReceived, receivedBytes,
                   size, retv, rx, callStart, nTrue, fresh, polled, owed, prompt>>

\* lines 145-146: SPI_data[i] = SPI_buffer[i]; i++.  SPI_buffer is volatile,
\* so the element is read again.
ReadAllCopyStore ==
    /\ pc = "copyStore"
    /\ \E junk \in Junk("SPI_buffer", i) :
          SetGlobals(Store(Globals, "SPI_data", i,
                           Load(Globals, "SPI_buffer", i, junk)))
    /\ i' = i + 1
    /\ pc' = "copyTest"
    /\ ub' = (ub \/ i >= DATA_LENGTH)
    /\ UNCHANGED <<pureVars, masterVars, layout, overrun, clean, lastPoll, size, retv, rx, callStart, nTrue, fresh, polled, owed, prompt>>

ZeroBound_WholeBuffer == DATA_LENGTH

\* line 150: the bound of the zeroing loop.
ZeroBound == receivedBytes

\* lines 150-151: for(size_t i = 0; i < receivedBytes; i++) SPI_buffer[i] = 0,
\* the volatile counter read at every test.
ReadAllZero ==
    /\ pc = "zero"
    /\ IF i < ZeroBound
       THEN /\ SetGlobals(Store(Globals, "SPI_buffer", i, 0))
            /\ i' = i + 1
            /\ pc' = "zero"
            /\ ub' = (ub \/ i >= DATA_LENGTH)
       ELSE /\ pc' = "clearFlag"
            /\ UNCHANGED <<SPI_data, SPI_buffer, dataIndex, dataReceived,
                           receivedBytes, i, ub>>
    /\ UNCHANGED <<pureVars, masterVars, layout, overrun, clean, lastPoll, size, retv, rx, callStart, nTrue, fresh, polled, owed, prompt>>

FlagAfterSwap_Kept == TRUE

\* line 153: the value the swap leaves in dataReceived.
FlagAfterSwap == FALSE

\* line 153: dataReceived = false.
ReadAllClearFlag ==
    /\ pc = "clearFlag"
    /\ dataReceived' = FlagAfterSwap
    /\ pc' = "clearCount"
    /\ UNCHANGED <<pureVars, masterVars, layout, overrun, clean, lastPoll, SPI_data, SPI_buffer, dataIndex, receivedBytes,
                   size, i, retv, rx, callStart, nTrue, fresh, polled, owed, prompt, ub>>

\* lines 154-156: receivedBytes = 0; return true.
ReadAllClearCount ==
    /\ pc = "clearCount"
    /\ receivedBytes' = 0
    /\ retv' = TRUE
    /\ pc' = "ret"
    /\ UNCHANGED <<pureVars, masterVars, layout, overrun, clean, lastPoll, SPI_data, SPI_buffer, dataIndex, dataReceived,
                   size, i, rx, callStart, nTrue, fresh, polled, owed, prompt, ub>>

\* The bytes of s from position a + 1 on.
Since(s, a) == SubSeq(s, a + 1, Len(s))

HasTerminator(s) == \E k \in 1 .. Len(s) : s[k] = DATA_END_CHAR

\* The call returns to main's loop, which calls again; p is the position in
\* the stream recorded as that of the last poll.
ReturnTo(p) ==
    /\ pc = "ret"
    /\ pc' = "main"
    /\ nTrue' = IF retv THEN nTrue + 1 ELSE nTrue
    /\ fresh' = (retv /\ callStart = Len(rx))
    /\ polled' = ~HasTerminator(Since(rx, callStart))
    /\ owed' = (owed /\ ~retv)
    /\ callStart' = 0
    /\ lastPoll' = p
    /\ UNCHANGED <<pureVars, masterVars, layout, overrun, clean, SPI_data, SPI_buffer, dataIndex, dataReceived, receivedBytes,
                   size, i, retv, rx, prompt, ub>>

Return == ReturnTo(lastPoll)

--------------------------------------------------------------------------
(* The master: the select-guarded operations, lines 201-321, on top of     *)
(* SPI_masterPutUint8_t (169-175) and SPI_masterReadUint8_t (55-63).       *)

\* The inputs the master's program passes.
Ports == {0, 165, 255}
Pins == {0, 3, 7}
Modes == {DEFAULT_SS_CONTROL, INVERTED_SS_CONTROL, 2}
Uint8Data == {0, 65, DATA_END_CHAR}
Strings == {<<0>>, <<84, 0>>, <<84, 79, 0>>, <<DATA_END_CHAR, 84, 0>>}
NumBytesSet == 0 .. 9
Miso == {0, 90}
Ops == {"SPI_transmitUint8_t", "SPI_transmitString", "SPI_transmitHex",
        "SPI_receiveUint8_t"}

\* A uint64_t as its eight bytes, byte 0 the least significant.
Limbs == 0 .. 7
Zero64 == [k \in Limbs |-> 0]

\* The uint64_t of a value below 2^31.
ToU64(x) == [k \in Limbs |-> IF k < 4 THEN (x \div (256 ^ k)) % 256 ELSE 0]

\* The uint64_t written as the hexadecimal constant with the bytes of s.
Hex64(s) == [k \in Limbs |-> s[8 - k]]

\* x >> (8 * k) for a uint64_t x and 0 <= k < 8.
Shr8(x, k) == [j \in Limbs |-> IF j + k <= 7 THEN x[j + k] ELSE 0]

Shl8Or_Saturating(x, b) ==
    [j \in Limbs |-> IF j = 0 THEN b ELSE IF j = 7 /\ x[7] # 0 THEN 255 ELSE x[j - 1]]

Shl8Or_SignExtended(x, b) ==
    [j \in Limbs |-> IF j = 0 THEN b ELSE IF b >= 128 THEN 255 ELSE x[j - 1]]

\* (x << 8) | b for a uint64_t x and a byte b: the top byte is shifted out.
Shl8Or(x, b) == [j \in Limbs |-> IF j = 0 THEN b ELSE x[j - 1]]

\* x & 0xFF, as a uint8_t.
Low8(x) == x[0]

\* The values main passes as hexNumber: 0x1234 (the example's LED_ON), 0x0D0D
\* and 0x80FF00000D010203.
HexNumbers == {ToU64(65), ToU64(4660), ToU64(3341), Hex64(<<128, 255, 0, 0, 13, 1, 2, 3>>)}

\* lines 285-286: the loop of hexArrayToUint64_t from index k on, with
\* combinedHex = acc.
RECURSIVE HexLoop(_, _, _, _)
HexLoop(arr, size_, k, acc) ==
    IF k < size_ THEN HexLoop(arr, size_, k + 1, Shl8Or(acc, arr[k + 1])) ELSE acc

hexArrayToUint64_t_FromOne(arr, size_) == HexLoop(arr, size_, 1, Zero64)

\* hexArrayToUint64_t, lines 281-289.
hexArrayToUint64_t(arr, size_) == HexLoop(arr, size_, 0, Zero64)

CharDiff_Signed(a, b) ==
    (IF a >= 128 THEN a - 256 ELSE a) - (IF b >= 128 THEN b - 256 ELSE b)

\* strcmp's result at the first pair of bytes that differ: the bytes are
\* compared as unsigned char.
CharDiff(a, b) == a - b

\* strcmp from position k on.
RECURSIVE StrcmpFrom(_, _, _)
StrcmpFrom(s1, s2, k) ==
    IF s1[k] # s2[k] THEN CharDiff(s1[k], s2[k])
    ELSE IF s1[k] = 0 THEN 0
    ELSE StrcmpFrom(s1, s2, k + 1)

\* SPI_strcmp, lines 124-127: strcmp((char *)(str1), str2).
SPI_strcmp(s1, s2) == StrcmpFrom(s1, s2, 1)

\* C's value of a comparison.
B2I(b) == IF b THEN 1 ELSE 0

\* Bit n of the byte x.
Bit(x, n) == (x \div (2 ^ n)) % 2

\* lines 203, 228, 258, 307: (*SS_PORTx) | (1 << SS_PORTxn).
PullHigh(port, n) == IF Bit(port, n) = 1 THEN port ELSE port + 2 ^ n

PullLow_ClearsPort(port, n) == 0

\* lines 204, 229, 259, 308: (*SS_PORTx) & ~(1 << SS_PORTxn).
PullLow(port, n) == IF Bit(port, n) = 1 THEN port - 2 ^ n ELSE port

\* lines 207, 232, 262, 311: the value written to the port before the body.
SelectAsserted(mode, hi, lo) ==
    U8(B2I(mode = DEFAULT_SS_CONTROL) * lo + B2I(mode = INVERTED_SS_CONTROL) * hi)

SelectReleased_Stuck(mode, hi, lo) == SelectAsserted(mode, hi, lo)

\* lines 212, 242, 266, 318: the value written to the port after the body.
SelectReleased(mode, hi, lo) ==
    U8(B2I(mode = DEFAULT_SS_CONTROL) * hi + B2I(mode = INVERTED_SS_CONTROL) * lo)

HexByte_Unshifted(v, k) == Low8(v)

\* line 314: (hexNumber >> (i * 8)) & mask, for 0 <= i < 8.
HexByte(v, k) == Low8(Shr8(v, k))

\* line 314 for any i: a shift of a uint64_t by 64 bits or more is undefined;
\* the builds differ in what it yields (zero, the unshifted value, anything).
HexByteSet(v, k) == IF k < 8 THEN {HexByte(v, k)} ELSE {0, Low8(v), 255}

\* main's loop calls one of the four operations.
MasterCall ==
    /\ mpc = "idle"
    /\ calls < MaxCalls
    /\ SS_PORTxn' \in Pins
    /\ SSmode' \in Modes
    /\ \/ /\ op' = "SPI_transmitUint8_t"
          /\ data' \in Uint8Data
          /\ str' = <<0>> /\ numBytes' = 0 /\ hexNumber' = Zero64
       \/ /\ op' = "SPI_transmitString"
          /\ str' \in Strings
          /\ data' = 0 /\ numBytes' = 0 /\ hexNumber' = Zero64
       \/ /\ op' = "SPI_transmitHex"
          /\ numBytes' \in NumBytesSet
          /\ hexNumber' \in HexNumbers
          /\ data' = 0 /\ str' = <<0>>
       \/ /\ op' = "SPI_receiveUint8_t"
          /\ data' = 0 /\ str' = <<0>> /\ numBytes' = 0 /\ hexNumber' = Zero64
    /\ ptr' = 0
    /\ hexI' = 0
    /\ term' = FALSE
    /\ sent' = <<>>
    /\ done' = 0
    /\ mpc' = "select"
    /\ UNCHANGED <<pureVars, slaveVars, PORT, SPDR, SPIF, spifSeen, busy, pullHigh, pullLow, calls>>

\* lines 203-207 (228-232, 258-262, 307-311): the two port values are
\* computed from the port as it is at entry, then the select line is driven.
MasterSelect ==
    /\ mpc = "select"
    /\ pullHigh' = PullHigh(PORT, SS_PORTxn)
    /\ pullLow' = PullLow(PORT, SS_PORTxn)
    /\ PORT' = SelectAsserted(SSmode, pullHigh', pullLow')
    /\ hexI' = numBytes - 1
    /\ mpc' = "body"
    /\ UNCHANGED <<pureVars, slaveVars, SPDR, SPIF, spifSeen, busy, op, SS_PORTxn, SSmode, data, str,
                   ptr, numBytes, hexNumber, term, sent, done, calls>>

\* lines 171 and 57: SPDR = x.  The write starts a transfer; coming after a
\* read of SPSR that found SPIF set, it clears SPIF.
MasterPut(x) ==
    /\ SPDR' = x
    /\ busy' = TRUE
    /\ SPIF' = (SPIF /\ ~spifSeen)
    /\ spifSeen' = FALSE
    /\ sent' = Append(sent, x)
    /\ mpc' = "poll"

\* SPI_transmitUint8_t, lines 209-210.
TransmitUint8Step ==
    /\ mpc = "body" /\ op = "SPI_transmitUint8_t" /\ ~term
    /\ IF ptr = 0
       THEN MasterPut(data) /\ term' = FALSE
       ELSE MasterPut(DATA_END_CHAR) /\ term' = TRUE
    /\ ptr' = ptr + 1
    /\ UNCHANGED <<pureVars, slaveVars, PORT, op, SS_PORTxn, SSmode, data, str, numBytes, hexNumber,
                   hexI, pullHigh, pullLow, done, calls>>

\* The position of the first zero byte of the string s.
FirstZero(s) == CHOOSE k \in 1 .. Len(s) : s[k] = 0 /\ \A j \in 1 .. (k - 1) : s[j] # 0

\* The bytes of s before its first zero byte.
Chars(s) == SubSeq(s, 1, FirstZero(s) - 1)

WhileData_Never(s, p) == FALSE

\* line 234: while(*data), data having advanced p elements into the string.
WhileData(s, p) == s[p + 1] # 0

\* SPI_transmitString, lines 234-240.
TransmitStringStep ==
    /\ mpc = "body" /\ op = "SPI_transmitString" /\ ~term
    /\ IF WhileData(str, ptr)
       THEN MasterPut(str[ptr + 1]) /\ ptr' = ptr + 1 /\ term' = FALSE
       ELSE MasterPut(DATA_END_CHAR) /\ ptr' = ptr /\ term' = TRUE
    /\ UNCHANGED <<pureVars, slaveVars, PORT, op, SS_PORTxn, SSmode, data, str, numBytes, hexNumber,
                   hexI, pullHigh, pullLow, done, calls>>

\* SPI_transmitHex, lines 313-316.
TransmitHexStep ==
    /\ mpc = "body" /\ op = "SPI_transmitHex" /\ ~term
    /\ IF hexI >= 0
       THEN /\ \E b \in HexByteSet(hexNumber, hexI) : MasterPut(b)
            /\ hexI' = hexI - 1 /\ term' = FALSE
       ELSE MasterPut(DATA_END_CHAR) /\ hexI' = hexI /\ term' = TRUE
    /\ UNCHANGED <<pureVars, slaveVars, PORT, op, SS_PORTxn, SSmode, data, str, ptr, numBytes,
                   hexNumber, pullHigh, pullLow, done, calls>>

\* SPI_receiveUint8_t, line 264, into SPI_masterReadUint8_t, line 57.
ReceiveStep ==
    /\ mpc = "body" /\ op = "SPI_receiveUint8_t" /\ ~term
    /\ MasterPut(DUMMY_BYTE)
    /\ term' = TRUE
    /\ UNCHANGED <<pureVars, slaveVars, PORT, op, SS_PORTxn, SSmode, data, str, ptr, numBytes,
                   hexNumber, hexI, pullHigh, pullLow, done, calls>>

\* The hardware finishes shifting the byte: SPDR holds what the slave sent,
\* SPIF is set.
TransferBody ==
    /\ busy
    /\ busy' = FALSE
    /\ SPIF' = TRUE
    /\ SPDR' \in Miso
    /\ done' = done + 1
    /\ UNCHANGED <<PORT, spifSeen, mpc, op, SS_PORTxn, SSmode, data, str, ptr,
                   numBytes, hexNumber, hexI, pullHigh, pullLow, term, sent, calls>>

\* The end of a transfer, for a slave the model leaves open.
TransferComplete ==
    /\ TransferBody
    /\ UNCHANGED <<pureVars, slaveVars>>

\* The end of a transfer between the two example programs: the byte the
\* master wrote to SPDR has been shifted into the slave, whose interrupt
\* runs on it.
LinkTransfer ==
    /\ TransferBody
    /\ IsrBody(SPDR)
    /\ UNCHANGED pureVars

\* The string example's master, Master_ATmega32.c lines 45-50: the same
\* command sent again after _delay_ms(500), by which time the slave's loop
\* has taken up the message before.
LinkCall ==
    /\ mpc = "idle"
    /\ calls < MaxCalls
    /\ ~dataReceived /\ ~InSwap
    /\ op' = "SPI_transmitString"
    /\ SS_PORTxn' = 3
    /\ SSmode' = DEFAULT_SS_CONTROL
    /\ str' = str
    /\ data' = 0 /\ numBytes' = 0 /\ hexNumber' = Zero64
    /\ ptr' = 0
    /\ hexI' = 0
    /\ term' = FALSE
    /\ sent' = <<>>
    /\ done' = 0
    /\ mpc' = "select"
    /\ UNCHANGED <<pureVars, slaveVars, PORT, SPDR, SPIF, spifSeen, busy, pullHigh, pullLow, calls>>

FlagSet_Timeout == TRUE

FlagSet_Never == FALSE

\* lines 173 and 59: SPSR & (1 << SPIF).
FlagSet == SPIF

\* lines 173 and 59: while(!(SPSR & (1 << SPIF))), one read of SPSR.
PollSPIF ==
    /\ mpc = "poll"
    /\ IF FlagSet
       THEN /\ spifSeen' = TRUE
            /\ mpc' = IF ~term THEN "body"
                      ELSE IF op = "SPI_receiveUint8_t" THEN "read" ELSE "release"
       ELSE UNCHANGED <<spifSeen, mpc>>
    /\ UNCHANGED <<pureVars, slaveVars, PORT, SPDR, SPIF, busy, op, SS_PORTxn, SSmode, data, str, ptr,
                   numBytes, hexNumber, hexI, pullHigh, pullLow, term, sent, done, calls>>

ReadResult_Dummy == DUMMY_BYTE

\* line 62: return SPDR.
ReadResult == SPDR

\* line 62: return SPDR, into uint8_t data of line 264.
ReceiveRead ==
    /\ mpc = "read"
    /\ data' = ReadResult
    /\ SPIF' = (SPIF /\ ~spifSeen)
    /\ spifSeen' = FALSE
    /\ mpc' = "release"
    /\ UNCHANGED <<pureVars, slaveVars, PORT, SPDR, busy, op, SS_PORTxn, SSmode, str, ptr,
                   numBytes, hexNumber, hexI, pullHigh, pullLow, term, sent, done, calls>>

GlobalsAfterPrimitive_Flagged(m) == [m EXCEPT !.dataReceived = TRUE]

\* What SPI_readUint8_t (lines 70-76) and SPI_putUint8_t (lines 182-190)
\* leave in the five globals: neither has a statement that names one.
GlobalsAfterPrimitive(m) == m

\* SPI_readUint8_t, lines 70-76: it leaves its loop once SPIF is set and
\* returns SPDR, here into the caller's data.
SPI_readUint8_t ==
    /\ mpc = "idle" /\ calls = MaxCalls
    /\ FlagSet
    /\ data' = ReadResult
    /\ SPIF' = FALSE
    /\ spifSeen' = FALSE
    /\ SetGlobals(GlobalsAfterPrimitive(Globals))
    /\ UNCHANGED <<pureVars, pc, size, i, retv, rx, callStart, nTrue, fresh, polled, owed,
                   prompt, ub, overrun, clean, lastPoll, layout, PORT, SPDR, busy, mpc, op, SS_PORTxn, SSmode,
                   str, ptr, numBytes, hexNumber, hexI, pullHigh, pullLow, term, sent, done,
                   calls>>

\* SPI_putUint8_t, lines 182-190: it leaves its loop once SPIF is set and
\* writes SPDR, which on a master starts a transfer.  The program calls it
\* once.
SPI_putUint8_t ==
    /\ mpc = "idle" /\ calls = MaxCalls
    /\ done = Len(sent)
    /\ FlagSet
    /\ ~busy
    /\ \E x \in Uint8Data : SPDR' = x
    /\ busy' = TRUE
    /\ SPIF' = FALSE
    /\ spifSeen' = FALSE
    /\ SetGlobals(GlobalsAfterPrimitive(Globals))
    /\ UNCHANGED <<pureVars, pc, size, i, retv, rx, callStart, nTrue, fresh, polled, owed,
                   prompt, ub, overrun, clean, lastPoll, layout, PORT, mpc, op, SS_PORTxn, SSmode, data,
                   str, ptr, numBytes, hexNumber, hexI, pullHigh, pullLow, term, sent, done,
                   calls>>

\* lines 212, 242, 266, 318: the select line is driven back.
MasterRelease ==
    /\ mpc = "release"
    /\ PORT' = SelectReleased(SSmode, pullHigh, pullLow)
    /\ mpc' = "ret"
    /\ UNCHANGED <<pureVars, slaveVars, SPDR, SPIF, spifSeen, busy, op, SS_PORTxn, SSmode, data, str,
                   ptr, numBytes, hexNumber, hexI, pullHigh, pullLow, term, sent, done, calls>>

\* The operation returns to main's loop.
MasterReturn ==
    /\ mpc = "ret"
    /\ mpc' = "idle"
    /\ calls' = calls + 1
    /\ UNCHANGED <<pureVars, slaveVars, PORT, SPDR, SPIF, spifSeen, busy, op, SS_PORTxn, SSmode, data,
                   str, ptr, numBytes, hexNumber, hexI, pullHigh, pullLow, term, sent, done>>

--------------------------------------------------------------------------
(* The functions without state: hexArrayToUint64_t and SPI_strcmp *)

\* The arrays passed to hexArrayToUint64_t: every array of up to three bytes
\* over 0, 1, 255, and arrays of four to ten bytes.
ShortArrays == UNION {[1 .. n -> {0, 1, 255}] : n \in 0 .. 3}
LongArrays == {<<1, 2, 3, 4>>, <<255, 0, 13, 0, 1>>, <<128, 255, 0, 0, 13, 1, 2>>,
               <<128, 255, 0, 0, 13, 1, 2, 3>>, <<0, 0, 0, 0, 0, 0, 0, 1>>,
               <<255, 255, 255, 255, 255, 255, 255, 255>>,
               <<7, 128, 255, 0, 0, 13, 1, 2, 3>>,
               <<255, 128, 255, 0, 0, 13, 1, 2, 3>>,
               <<1, 2, 3, 4, 5, 6, 7, 8, 9, 10>>}
Arrays == ShortArrays \cup LongArrays

\* The zero-terminated strings passed to SPI_strcmp, bytes behind the
\* terminator included.
CStrings == {<<0>>, <<0, 65>>, <<65, 0>>, <<65, 66, 0>>, <<65, 66, 0, 67>>, <<65, 67, 0>>,
             <<65, 200, 0>>, <<200, 0>>, <<65, 66, 67, 0>>}

ApplyHexArray ==
    /\ "hexArrayToUint64_t" \notin applied
    /\ combinedHex' = hexArrayToUint64_t(array, Len(array))
    /\ applied' = applied \cup {"hexArrayToUint64_t"}
    /\ UNCHANGED <<slaveVars, masterVars, array, str1, str2, cmp>>

ApplyStrcmp ==
    /\ "SPI_strcmp" \notin applied
    /\ cmp' = SPI_strcmp(str1, str2)
    /\ applied' = applied \cup {"SPI_strcmp"}
    /\ UNCHANGED <<slaveVars, masterVars, array, str1, str2, combinedHex>>

\* Neither function has been called.
PureIdle(arrays, strings) ==
    /\ array \in arrays
    /\ str1 \in strings
    /\ str2 \in strings
    /\ combinedHex = Zero64
    /\ cmp = 0
    /\ applied = {}

--------------------------------------------------------------------------

\* Power-on of the slave: lines 78-83.
SlavePowerOn ==
    /\ SPI_data = [k \in Index |-> 0]
    /\ SPI_buffer = [k \in Index |-> 0]
    /\ dataIndex = 0
    /\ dataReceived = FALSE
    /\ receivedBytes = 0
    /\ pc = "main"
    /\ size = 0
    /\ i = 0
    /\ retv = FALSE
    /\ rx = <<>>
    /\ callStart = 0
    /\ nTrue = 0
    /\ fresh = FALSE
    /\ polled = TRUE
    /\ owed = FALSE
    /\ prompt = TRUE
    /\ ub = FALSE
    /\ overrun = FALSE
    /\ clean = TRUE
    /\ lastPoll = 0
    /\ layout \in Layouts

\* Reset of the master: SPI idle, SPIF clear, the port as the program set it,
\* the string its program holds.
MasterPowerOnWith(ports, strings) ==
    /\ PORT \in ports
    /\ SPDR = 0
    /\ SPIF = FALSE
    /\ spifSeen = FALSE
    /\ busy = FALSE
    /\ mpc = "idle"
    /\ op = "SPI_receiveUint8_t"
    /\ SS_PORTxn = 0
    /\ SSmode = DEFAULT_SS_CONTROL
    /\ data = 0
    /\ str \in strings
    /\ ptr = 0
    /\ numBytes = 0
    /\ hexNumber = Zero64
    /\ hexI = 0
    /\ pullHigh = 0
    /\ pullLow = 0
    /\ term = FALSE
    /\ sent = <<>>
    /\ done = 0
    /\ calls = 0

MasterPowerOn(ports) == MasterPowerOnWith(ports, {<<0>>})

\* The slave device: the receive interrupt against the polling foreground.
Init == SlavePowerOn /\ MasterPowerOn({0}) /\ PureIdle({<<>>}, {<<0>>})

Next ==
    \/ ISR
    \/ Call
    \/ ReadAllTest
    \/ ReadAllFlushArg
    \/ ReadAllFlush
    \/ ReadAllCopyTest
    \/ ReadAllCopyStore
    \/ ReadAllZero
    \/ ReadAllClearFlag
    \/ ReadAllClearCount
    \/ Return

Spec == Init /\ [][Next]_vars

\* The foreground never stops: main's loop has no exit and no wait.
Foreground ==
    \/ Call
    \/ ReadAllTest
    \/ ReadAllFlushArg
    \/ ReadAllFlush
    \/ ReadAllCopyTest
    \/ ReadAllCopyStore
    \/ ReadAllZero
    \/ ReadAllClearFlag
    \/ ReadAllClearCount
    \/ Return

FairSpec == Spec /\ WF_vars(Foreground)

\* The receive interrupt held off while SPI_readAll runs: it fires only
\* between two calls of main's loop.
IsrBetweenCalls ==
    /\ pc = "main"
    /\ Len(rx) < MaxStream
    /\ \E b \in Bytes : IsrBody(b)
    /\ UNCHANGED <<pureVars, masterVars>>

\* The return of a call that no interrupt preempted: a poll of the stream at
\* its current length.
PollReturn == ReturnTo(Len(rx))

NextAtomic ==
    \/ IsrBetweenCalls
    \/ Call
    \/ ReadAllTest
    \/ ReadAllFlushArg
    \/ ReadAllFlush
    \/ ReadAllCopyTest
    \/ ReadAllCopyStore
    \/ ReadAllZero
    \/ ReadAllClearFlag
    \/ ReadAllClearCount
    \/ PollReturn

\* The slave with every call of SPI_readAll uninterrupted.
SpecAtomic == Init /\ [][NextAtomic]_vars

\* The master device: its program calling the select-guarded operations.
InitMaster ==
    SlavePowerOn /\ layout = "apart" /\ MasterPowerOn(Ports) /\ PureIdle({<<>>}, {<<0>>})

NextMaster ==
    \/ MasterCall
    \/ MasterSelect
    \/ TransmitUint8Step
    \/ TransmitStringStep
    \/ TransmitHexStep
    \/ ReceiveStep
    \/ TransferComplete
    \/ PollSPIF
    \/ ReceiveRead
    \/ MasterRelease
    \/ MasterReturn

SpecMaster == InitMaster /\ [][NextMaster]_vars

\* The steps of the master's CPU inside a call.
MasterProgram ==
    \/ MasterSelect
    \/ TransmitUint8Step
    \/ TransmitStringStep
    \/ TransmitHexStep
    \/ ReceiveStep
    \/ PollSPIF
    \/ ReceiveRead
    \/ MasterRelease
    \/ MasterReturn

\* The master with a CPU that keeps executing and SPI hardware that
\* finishes every transfer it was given.
FairSpecMaster == SpecMaster /\ WF_vars(MasterProgram) /\ WF_vars(TransferComplete)

\* A program that calls the select-guarded operations and then, any number
\* of times, the two primitives that poll before they touch SPDR.
NextDevice ==
    \/ MasterCall
    \/ MasterSelect
    \/ TransmitUint8Step
    \/ TransmitStringStep
    \/ TransmitHexStep
    \/ ReceiveStep
    \/ TransferComplete
    \/ PollSPIF
    \/ ReceiveRead
    \/ MasterRelease
    \/ MasterReturn
    \/ SPI_readUint8_t
    \/ SPI_putUint8_t

SpecDevice == InitMaster /\ [][NextDevice]_vars

\* The commands of the string example: no terminator and no zero inside,
\* shorter than DATA_LENGTH.
Commands ==
    {s \in Strings : /\ Len(Chars(s)) < DATA_LENGTH
                     /\ \A k \in 1 .. Len(Chars(s)) : s[k] # DATA_END_CHAR}

\* The two programs of the string example on one bus.
InitLink ==
    SlavePowerOn /\ MasterPowerOnWith({255}, Commands) /\ PureIdle({<<>>}, {<<0>>})

NextLink ==
    \/ LinkCall
    \/ MasterSelect
    \/ TransmitStringStep
    \/ LinkTransfer
    \/ PollSPIF
    \/ MasterRelease
    \/ MasterReturn
    \/ Call
    \/ ReadAllTest
    \/ ReadAllFlushArg
    \/ ReadAllFlush
    \/ ReadAllCopyTest
    \/ ReadAllCopyStore
    \/ ReadAllZero
    \/ ReadAllClearFlag
    \/ ReadAllClearCount
    \/ Return

SpecLink == InitLink /\ [][NextLink]_vars

\* Both programs keep running and the hardware finishes its transfers.
FairSpecLink ==
    SpecLink /\ WF_vars(Foreground) /\ WF_vars(MasterProgram) /\ WF_vars(LinkTransfer)

\* The numbers the hex example can send in n bytes to a slave whose buffer
\* takes them: n payload bytes and the terminator fit SPI_buffer, the number
\* is below 2^(8n) and none of its n bytes is the terminator.
HexFits(n, v) ==
    /\ n < DATA_LENGTH
    /\ \A k \in Limbs : k >= n => v[k] = 0
    /\ \A k \in 0 .. (n - 1) : v[k] # DATA_END_CHAR

\* Bytes reaching the slave before the hex example's master has sent
\* anything: messages of earlier senders, of any content.
PriorISR ==
    /\ mpc = "idle" /\ calls = 0
    /\ Len(rx) < MaxPrior
    /\ \E b \in Bytes : IsrBody(b)
    /\ UNCHANGED <<pureVars, masterVars>>

\* The hex example's master, Master_ATmega32.c line 53, sending one number
\* to a slave that has no message pending, its cursor at 0, and is not inside
\* a swap.
LinkHexCall ==
    /\ mpc = "idle"
    /\ calls = 0
    /\ ~dataReceived /\ dataIndex = 0 /\ ~InSwap
    /\ op' = "SPI_transmitHex"
    /\ SS_PORTxn' = 3
    /\ SSmode' = DEFAULT_SS_CONTROL
    /\ numBytes' \in 1 .. 8
    /\ hexNumber' \in HexNumbers
    /\ HexFits(numBytes', hexNumber')
    /\ data' = 0 /\ str' = <<0>>
    /\ ptr' = 0
    /\ hexI' = 0
    /\ term' = FALSE
    /\ sent' = <<>>
    /\ done' = 0
    /\ mpc' = "select"
    /\ UNCHANGED <<pureVars, slaveVars, PORT, SPDR, SPIF, spifSeen, busy, pullHigh, pullLow, calls>>

\* A slave with a history of its own, then the hex example's master on its
\* bus.
InitHexLink ==
    SlavePowerOn /\ MasterPowerOn({255}) /\ PureIdle({<<>>}, {<<0>>})

NextHexLink ==
    \/ PriorISR
    \/ LinkHexCall
    \/ MasterSelect
    \/ TransmitHexStep
    \/ LinkTransfer
    \/ PollSPIF
    \/ MasterRelease
    \/ MasterReturn
    \/ Call
    \/ ReadAllTest
    \/ ReadAllFlushArg
    \/ ReadAllFlush
    \/ ReadAllCopyTest
    \/ ReadAllCopyStore
    \/ ReadAllZero
    \/ ReadAllClearFlag
    \/ ReadAllClearCount
    \/ Return

SpecHexLink == InitHexLink /\ [][NextHexLink]_vars

\* A program calling the two functions on arguments of its choice.
InitPure ==
    SlavePowerOn /\ layout = "apart" /\ MasterPowerOn({0}) /\ PureIdle(Arrays, CStrings)

NextPure ==
    \/ ApplyHexArray
    \/ ApplyStrcmp

SpecPure == InitPure /\ [][NextPure]_vars

--------------------------------------------------------------------------
(* What the stream received so far says *)

ButLast(s) == SubSeq(s, 1, Len(s) - 1)

NumTerminators(s) == Cardinality({k \in 1 .. Len(s) : s[k] = DATA_END_CHAR})

\* The position of the last terminator of s before position n, or 0.
PrevTerminator(s, n) ==
    LET ks == {k \in 1 .. (n - 1) : s[k] = DATA_END_CHAR}
    IN  IF ks = {} THEN 0 ELSE CHOOSE k \in ks : \A j \in ks : j <= k

\* The payload of the message that the terminator at position n ends.
MessageAt(s, n) == SubSeq(s, PrevTerminator(s, n) + 1, n - 1)

\* The payloads of the messages received in full.
Messages(s) == {MessageAt(s, n) : n \in {k \in 1 .. Len(s) : s[k] = DATA_END_CHAR}}

EndsMessage(s) == Len(s) >= 1 /\ s[Len(s)] = DATA_END_CHAR

\* The message just framed, when s ends with a terminator.
LastMessage(s) == MessageAt(s, Len(s))

\* Every message of s, the one in progress too, is shorter than DATA_LENGTH.
AllShort(s) ==
    \A k \in 1 .. (Len(s) - DATA_LENGTH + 1) :
        HasTerminator(SubSeq(s, k, k + DATA_LENGTH - 1))

\* S followed only by zero bytes, as an array of DATA_LENGTH elements.
Pad(S) == [k \in Index |-> IF k < Len(S) THEN S[k + 1] ELSE 0]

\* The first Len(S) elements of array a are S.
HoldsPrefix(a, S) ==
    Len(S) <= DATA_LENGTH /\ \A k \in 1 .. Len(S) : a[k - 1] = S[k]

\* The stream is one message: payload without terminator, shorter than
\* DATA_LENGTH, then the terminator.
OneMessage ==
    EndsMessage(rx) /\ ~HasTerminator(ButLast(rx)) /\ Len(rx) - 1 < DATA_LENGTH

\* The call at pc = "ret" ran with no interrupt between its first and its
\* last step.
Uninterrupted == callStart = Len(rx)

--------------------------------------------------------------------------
(* Claims *)

\* C1: from power-on, after the bytes of S (no terminator, len(S) <
\* DATA_LENGTH, the empty S and len(S) = DATA_LENGTH - 1 included) and then
\* the terminator, an uninterrupted SPI_readAll returns true with SPI_data
\* equal to S followed only by zeros, and a call that follows it with no byte
\* in between returns false.
C1_FramedMessageDeliveredOnce ==
    /\ (pc = "ret" /\ Uninterrupted /\ OneMessage /\ nTrue = 0)
          => (retv = TRUE /\ SPI_data = Pad(ButLast(rx)))
    /\ (pc = "ret" /\ Uninterrupted /\ OneMessage /\ nTrue = 1 /\ fresh)
          => retv = FALSE

C1_Witness ==
    /\ pc = "ret" /\ Uninterrupted /\ OneMessage /\ nTrue = 1 /\ fresh
    /\ Len(rx) = DATA_LENGTH
    /\ retv = FALSE
    /\ SPI_data = Pad(ButLast(rx))
    /\ SPI_data[DATA_LENGTH - 2] # 0

\* C2: when every message (no terminator inside, shorter than DATA_LENGTH) is
\* consumed by one uninterrupted SPI_readAll before the next byte arrives,
\* after every SPI_readAll that returns true SPI_data is the payload of the
\* message just framed followed only by zeros: nothing of an earlier message
\* remains.
C2_SwapClearsStableBuffer ==
    (pc = "ret" /\ retv = TRUE /\ prompt /\ AllShort(rx))
        => SPI_data = Pad(LastMessage(rx))

\* C3: the receive ISR stores only to SPI_buffer[0 .. DATA_LENGTH-1]: at every
\* store the cursor dataIndex is below DATA_LENGTH.
C3_IsrStoresInBounds ==
    [][rx' # rx => dataIndex < DATA_LENGTH]_vars

\* C4: every terminator received is matched by exactly one SPI_readAll that
\* returns true: once the foreground has polled after the last terminator,
\* the number of true returns equals the number of terminators received.
\* Stated for the executions in which every access stayed inside its array
\* and no terminator arrived while a framed message was waiting for the
\* foreground to take it up.
C4_OneTrueReturnPerTerminator ==
    (pc = "main" /\ polled /\ ~ub /\ ~overrun) => nTrue = NumTerminators(rx)

\* C5: the swap is atomic with respect to the receive interrupt: the ISR does
\* not execute between the step at which SPI_readAll sees dataReceived = true
\* and the step that clears receivedBytes.
C5_SwapIsAtomic ==
    [][rx' # rx => ~InSwap]_vars

\* C6: whenever the ISR may preempt SPI_readAll, every SPI_readAll that
\* returns true leaves in SPI_data the payload of one message received in
\* full, not a mixture of two messages and not a message with bytes zeroed.
\* Stated for the executions in which every access stayed inside its array.
C6_NoTornRead ==
    (pc = "ret" /\ retv = TRUE /\ ~ub)
        => \E S \in Messages(rx) : HoldsPrefix(SPI_data, S)

\* C7: once a terminator has been received, a foreground that keeps calling
\* SPI_readAll gets a true return from a call that completes after it; and
\* only SPI_readAll clears dataReceived.  A call whose copy loop ran away
\* behind SPI_buffer is not counted against the claim.
C7_TerminatorLeadsToTrueReturn ==
    /\ owed ~> (~owed \/ pc = "astray")
    /\ [][(dataReceived /\ ~dataReceived') => rx' = rx]_vars

\* C8: the number of true returns never exceeds the number of terminators
\* received, and a call returns false when no terminator has been received
\* since the previous true return.
C8_TrueOnlyAfterTerminator ==
    /\ nTrue + (IF pc = "ret" /\ retv THEN 1 ELSE 0) <= NumTerminators(rx)
    /\ (pc = "ret" /\ ~owed) => retv = FALSE

\* The steps of a call of SPI_readAll that finds the flag down.
FalsePollStep ==
    /\ rx' = rx
    /\ \/ pc = "main"
       \/ pc = "test" /\ ~dataReceived
       \/ pc = "ret" /\ ~retv

\* C9: with the Ready Flag down SPI_readAll returns false and leaves
\* SPI_data, SPI_buffer, dataIndex, receivedBytes and dataReceived as they
\* were, so a message in progress keeps accumulating across failed polls.
C9_FalsePollChangesNothing ==
    [][/\ (pc = "test" /\ ~dataReceived /\ rx' = rx /\ pc' # pc)
            => (pc' = "ret" /\ retv' = FALSE)
       /\ FalsePollStep
            => UNCHANGED <<SPI_data, SPI_buffer, dataIndex, receivedBytes,
                           dataReceived>>]_vars

C9_Witness ==
    /\ pc = "ret" /\ retv = FALSE
    /\ ~dataReceived
    /\ dataIndex = 2 /\ receivedBytes = 2
    /\ callStart = 1 /\ Len(rx) = 2

\* The select bit is at the active level of the call's polarity.
Selected ==
    Bit(PORT, SS_PORTxn) = (IF SSmode = DEFAULT_SS_CONTROL THEN 0 ELSE 1)

\* C10: in each of the four select-guarded operations called with
\* DEFAULT_SS_CONTROL or INVERTED_SS_CONTROL, every write to SPDR (the first
\* included) and every completion of a transfer happens with the select bit at
\* its active level (low for DEFAULT, high for INVERTED); the bit leaves that
\* level only once the last transfer of the call, terminator included, has
\* completed; and it is at the opposite level from then until the call returns.
C10_ChipSelectBracket ==
    [][(SSmode \in {DEFAULT_SS_CONTROL, INVERTED_SS_CONTROL}) =>
          /\ (Len(sent') = Len(sent) + 1) => Selected
          /\ (done' = done + 1) => Selected
          /\ (mpc # "idle" /\ Selected /\ PORT' # PORT) =>
                (term /\ ~busy /\ Len(sent) >= 1 /\ done = Len(sent))
          /\ (mpc = "release") => ~Selected'
          /\ (mpc = "ret") => ~Selected]_vars

C10_Witness ==
    /\ mpc = "ret" /\ calls = 1
    /\ op = "SPI_transmitString" /\ SSmode = INVERTED_SS_CONTROL
    /\ sent = <<84, 79, DATA_END_CHAR>> /\ done = 3
    /\ Bit(PORT, SS_PORTxn) = 0

--------------------------------------------------------------------------
(* The bytes the master's operations put on the bus *)

\* C11: SPI_transmitString writes to SPDR exactly the bytes of its string up
\* to (not including) the first zero byte, in order, then exactly one
\* DATA_END_CHAR (the empty string: only the terminator); SPI_transmitUint8_t
\* writes exactly data, DATA_END_CHAR; and each byte is written only after the
\* transfer of the previous one has completed.
C11_StringEmitsCharsThenTerminator ==
    [][/\ (mpc = "release" /\ op = "SPI_transmitString")
             => sent = Chars(str) \o <<DATA_END_CHAR>>
       /\ (mpc = "release" /\ op = "SPI_transmitUint8_t")
             => sent = <<data, DATA_END_CHAR>>
       /\ (Len(sent') = Len(sent) + 1 /\ op \in {"SPI_transmitString", "SPI_transmitUint8_t"})
             => (~busy /\ done = Len(sent))
       /\ (mpc \in {"release", "ret"} /\ mpc' # "idle") => sent' = sent]_vars

C11_Witness ==
    /\ mpc = "ret" /\ op = "SPI_transmitString"
    /\ str = <<DATA_END_CHAR, 84, 0>>
    /\ sent = <<DATA_END_CHAR, 84, DATA_END_CHAR>> /\ done = 3

\* The n low bytes of the uint64_t v, most significant first.
BigEndian(v, n) == [k \in 1 .. n |-> v[n - k]]

IsPrefix(s, t) == Len(s) <= Len(t) /\ SubSeq(t, 1, Len(s)) = s

\* C12: for every numBytes n in 0..8 and every 64-bit value v SPI_transmitHex
\* writes to SPDR exactly n payload bytes, the i-th being (v >> 8*(n-1-i)) &
\* 0xFF (the low n bytes of v, most significant first), then exactly one
\* DATA_END_CHAR, all of them while the select line is asserted; n = 2,
\* v = 0x1234 gives 0x12, 0x34, 0x0D.
C12_HexEmitsBigEndianThenTerminator ==
    (op = "SPI_transmitHex" /\ numBytes <= 8) =>
        /\ (mpc \in {"release", "ret"})
              => sent = BigEndian(hexNumber, numBytes) \o <<DATA_END_CHAR>>
        /\ (mpc \in {"body", "poll", "release"})
              => /\ IsPrefix(sent, BigEndian(hexNumber, numBytes) \o <<DATA_END_CHAR>>)
                 /\ (SSmode \in {DEFAULT_SS_CONTROL, INVERTED_SS_CONTROL}) => Selected
        /\ (mpc \in {"release", "ret"} /\ numBytes = 2 /\ hexNumber = ToU64(4660))
              => sent = <<18, 52, DATA_END_CHAR>>

C12_Witness ==
    /\ mpc = "ret" /\ op = "SPI_transmitHex" /\ numBytes = 8
    /\ sent = <<128, 255, 0, 0, 13, 1, 2, 3, DATA_END_CHAR>>
    /\ done = 9

--------------------------------------------------------------------------
(* hexArrayToUint64_t and SPI_strcmp *)

\* b0*256^(n-1) + ... + b(n-1), for arrays short enough for the integers.
RECURSIVE Weighted(_)
Weighted(b) == IF b = <<>> THEN 0 ELSE Head(b) * (256 ^ (Len(b) - 1)) + Weighted(Tail(b))

\* The number a uint64_t below 2^24 stands for.
Num24(v) == v[0] + 256 * v[1] + 65536 * v[2]

\* C13: for every byte array b0..b(n-1), 0 <= n <= 8, hexArrayToUint64_t
\* returns b0*256^(n-1) + ... + b(n-1) (0 for n = 0), every byte an unsigned
\* value: the byte of weight 256^k of the result is b(n-1-k) for k < n and 0
\* for k >= n, and for n <= 3 the result is that sum as a number.
C13_HexArrayIsBigEndianFold ==
    ("hexArrayToUint64_t" \in applied /\ Len(array) <= 8) =>
        /\ \A k \in Limbs :
              combinedHex[k] = IF k < Len(array) THEN array[Len(array) - k] ELSE 0
        /\ Len(array) <= 3 =>
              /\ \A k \in 3 .. 7 : combinedHex[k] = 0
              /\ Num24(combinedHex) = Weighted(array)

C13_Witness ==
    /\ "hexArrayToUint64_t" \in applied
    /\ array = <<128, 255, 0, 0, 13, 1, 2, 3>>
    /\ combinedHex = Hex64(<<128, 255, 0, 0, 13, 1, 2, 3>>)

\* v < 2^(8n), for a uint64_t v.
Fits(v, n) == \A k \in Limbs : k >= n => v[k] = 0

\* C14: for n in 1..8 and every v < 2^(8n), hexArrayToUint64_t applied to
\* the n payload bytes that SPI_transmitHex(n, v) has emitted returns v.
C14_HexRoundTrip ==
    (/\ op = "SPI_transmitHex"
     /\ mpc \in {"release", "ret"}
     /\ numBytes \in 1 .. 8
     /\ Fits(hexNumber, numBytes)) =>
        /\ Len(sent) = numBytes + 1
        /\ hexArrayToUint64_t(SubSeq(sent, 1, numBytes), numBytes) = hexNumber

C14_Witness ==
    /\ op = "SPI_transmitHex"
    /\ mpc = "ret"
    /\ numBytes = 3
    /\ hexNumber = ToU64(4660)
    /\ hexArrayToUint64_t(SubSeq(sent, 1, 3), 3) = ToU64(4660)

Sign(x) == IF x > 0 THEN 1 ELSE IF x < 0 THEN -1 ELSE 0

\* The bytes of a string up to and including its first zero.
UpToZero(s) == SubSeq(s, 1, FirstZero(s))

\* The first position at which two strings differ.
FirstDiff(a, b) ==
    CHOOSE k \in 1 .. Len(a) : k <= Len(b) /\ a[k] # b[k] /\ \A j \in 1 .. (k - 1) : a[j] = b[j]

\* C15: SPI_strcmp(a, b) is 0 exactly when a and b hold identical bytes up
\* to and including the first zero byte; otherwise its sign is the sign of
\* the first differing byte of a minus that of b, the bytes compared as
\* unsigned values; the sign flips when the arguments are exchanged; and
\* SPI_strcmp([0x41, 0x42, 0x00], "AB") is 0.
C15_StrcmpSign ==
    ("SPI_strcmp" \in applied) =>
        /\ (cmp = 0) <=> (UpToZero(str1) = UpToZero(str2))
        /\ (cmp # 0) =>
              Sign(cmp) = Sign(str1[FirstDiff(str1, str2)] - str2[FirstDiff(str1, str2)])
        /\ Sign(SPI_strcmp(str2, str1)) = 0 - Sign(cmp)
        /\ (str1 = <<65, 66, 0>> /\ str2 = <<65, 66, 0>>) => cmp = 0

C15_Witness ==
    /\ "SPI_strcmp" \in applied
    /\ str1 = <<65, 200, 0>>
    /\ str2 = <<65, 66, 0, 67>>
    /\ cmp > 0

\* C16: SPI_receiveUint8_t performs exactly one transfer inside the select
\* window, with the dummy byte 0xFF written to start it; it sends no
\* terminator; and the value it returns is the byte the data register
\* latched when that transfer completed.
C16_ReceiveOneTransfer ==
    [][(op = "SPI_receiveUint8_t" /\ mpc # "idle") =>
          /\ (Len(sent') = Len(sent) + 1) =>
                /\ sent' = <<DUMMY_BYTE>>
                /\ (SSmode \in {DEFAULT_SS_CONTROL, INVERTED_SS_CONTROL}) => Selected
          /\ (done' = done + 1) =>
                /\ done = 0 /\ sent = <<DUMMY_BYTE>>
                /\ (SSmode \in {DEFAULT_SS_CONTROL, INVERTED_SS_CONTROL}) => Selected
          /\ (done = 1) => SPDR' = SPDR
          /\ (mpc \in {"release", "ret"}) =>
                /\ sent = <<DUMMY_BYTE>> /\ done = 1 /\ ~busy
                /\ data = SPDR
          /\ (mpc = "ret" /\ SSmode \in {DEFAULT_SS_CONTROL, INVERTED_SS_CONTROL}) => ~Selected]_vars

C16_Witness ==
    /\ op = "SPI_receiveUint8_t" /\ mpc = "ret"
    /\ sent = <<DUMMY_BYTE>> /\ done = 1
    /\ data = 90 /\ SPDR = 90
    /\ ~Selected

\* C17: SPI_masterPutUint8_t and SPI_masterReadUint8_t write the data
\* register first and return only after observing the transfer-complete flag
\* set; there is no timeout: as long as the hardware has not set the flag the
\* call stays in its polling loop, so it never returns if the flag never
\* comes.
C17_BlockingPollNoTimeout ==
    [][/\ (Len(sent') = Len(sent) + 1) => (mpc = "body" /\ mpc' = "poll" /\ busy' /\ ~SPIF')
       /\ (mpc = "poll" /\ mpc' # "poll") => (SPIF /\ ~busy /\ done = Len(sent))
       /\ (mpc = "poll" /\ ~SPIF) => mpc' = "poll"
       /\ (mpc = "poll") => sent' = sent]_vars

C17_Witness ==
    /\ op = "SPI_receiveUint8_t" /\ mpc = "read"
    /\ sent = <<DUMMY_BYTE>> /\ done = 1 /\ SPIF /\ spifSeen

\* C18: provided the hardware completes every transfer a finite time after
\* the write that started it, every call of SPI_transmitUint8_t,
\* SPI_transmitString (on a zero-terminated string), SPI_transmitHex (with
\* numBytes <= 8) and SPI_receiveUint8_t terminates, with the select line
\* de-asserted.
C18_CallsTerminate ==
    (mpc = "select" /\ (op = "SPI_transmitHex" => numBytes <= 8))
        ~> (/\ mpc = "ret"
            /\ ~busy /\ done = Len(sent)
            /\ (SSmode \in {DEFAULT_SS_CONTROL, INVERTED_SS_CONTROL}) => ~Selected)

C18_Witness ==
    /\ mpc = "ret" /\ calls = 1
    /\ op = "SPI_transmitHex" /\ numBytes = 8 /\ SSmode = DEFAULT_SS_CONTROL
    /\ Len(sent) = 9 /\ done = 9
    /\ ~Selected

\* The bytes a call has written before its terminator.
PayloadSent == IF term THEN ButLast(sent) ELSE sent

\* C19: SPI_transmitHex called with numBytes > 8 is rejected or clamped: it
\* never emits more than 8 payload bytes before the terminator.
C19_OversizedHexClamped ==
    (op = "SPI_transmitHex") => Len(PayloadSent) <= 8

--------------------------------------------------------------------------
(* The string example end to end *)

\* SPI_data as the string SPI_strcmp is handed.
DataString == [k \in 1 .. DATA_LENGTH |-> SPI_data[k - 1]]

\* The true returns so far, the one being returned included.
TrueReturns == nTrue + B2I(pc = "ret" /\ retv)

\* C20: when the master sends the same command s (no terminator, no zero
\* byte, shorter than DATA_LENGTH) again and again with SPI_transmitString,
\* each byte reaching the slave's interrupt, and the slave's loop takes up
\* each message before the next begins, then at every true return of
\* SPI_readAll SPI_strcmp(SPI_data, s) is 0, and every transmission gets
\* exactly one true return: never more true returns than terminators
\* delivered, as many as terminators whenever no message is pending or being
\* taken up, and a pending message is always followed by a true return.
C20_EndToEndString ==
    /\ []((pc = "ret" /\ retv) => SPI_strcmp(DataString, str) = 0)
    /\ [](/\ TrueReturns <= NumTerminators(rx)
          /\ TrueReturns >= NumTerminators(rx) - 1
          /\ (~dataReceived /\ ~InSwap) => TrueReturns = NumTerminators(rx)
          /\ (mpc = "idle") => NumTerminators(rx) = calls)
    /\ (dataReceived ~> (pc = "ret" /\ retv))

C20_Witness ==
    /\ pc = "ret" /\ retv /\ nTrue = 1
    /\ calls = 2
    /\ str = <<84, 79, 0>>
    /\ rx = <<84, 79, DATA_END_CHAR, 84, 79, DATA_END_CHAR>>
    /\ SPI_strcmp(DataString, str) = 0

--------------------------------------------------------------------------
(* The hex example end to end *)

\* The master's SPI_transmitHex has put its last byte, the terminator, on
\* the bus and the transfer has completed.
HexDelivered == op = "SPI_transmitHex" /\ term /\ done = Len(sent)

\* C21: for a number v below 2^(8n) none of whose n bytes is the terminator
\* (zero bytes allowed), sent by SPI_transmitHex(n, v) to a slave that had no
\* message pending and its cursor at 0, whatever it had received before: the
\* first SPI_readAll called afterwards and run uninterrupted returns true, and
\* hexArrayToUint64_t(SPI_data, n) is v.
C21_EndToEndHex ==
    (HexDelivered /\ pc = "ret" /\ Uninterrupted /\ owed) =>
        /\ retv = TRUE
        /\ hexArrayToUint64_t(DataString, numBytes) = hexNumber

C21_Witness ==
    /\ HexDelivered /\ pc = "ret" /\ Uninterrupted /\ owed /\ retv
    /\ numBytes = 2 /\ hexNumber = ToU64(65)
    /\ nTrue = 1
    /\ Len(rx) = 6
    /\ DataString = <<0, 65, 0>>

--------------------------------------------------------------------------
(* What belongs to whom *)

\* C22: the transfer primitives (SPI_masterPutUint8_t, SPI_masterReadUint8_t,
\* SPI_readUint8_t, SPI_putUint8_t) and the select-guarded operations
\* (SPI_transmitUint8_t, SPI_transmitString, SPI_transmitHex,
\* SPI_receiveUint8_t) leave SPI_buffer, SPI_data, dataIndex, dataReceived and
\* receivedBytes unchanged at every one of their steps.
C22_PrimitivesLeaveSharedState ==
    [][UNCHANGED <<SPI_data, SPI_buffer, dataIndex, dataReceived, receivedBytes>>]_vars

C22_Witness ==
    /\ calls = 2 /\ mpc = "idle"
    /\ op = "SPI_transmitHex" /\ Len(sent) = 10
    /\ done = Len(sent) + 1
    /\ data = 90 /\ ~SPIF
    /\ dataReceived = FALSE /\ dataIndex = 0 /\ receivedBytes = 0

--------------------------------------------------------------------------
(* The receive handler and the swap, step by step *)

\* The byte the interrupt of this step received.
Received == rx'[Len(rx')]

\* C23: the receive ISR, run on byte b with the cursor c = dataIndex: if b is
\* not the terminator then SPI_buffer[c] = b, dataIndex = c + 1, receivedBytes
\* has grown by 1 and dataReceived is unchanged; if b is the terminator then
\* dataReceived = true, dataIndex = 0, receivedBytes is unchanged and every
\* element of SPI_buffer below c keeps its value.
C23_IsrTransition ==
    [][rx' # rx =>
          IF Received # DATA_END_CHAR
          THEN /\ dataIndex' = dataIndex + 1
               /\ receivedBytes' = receivedBytes + 1
               /\ dataReceived' = dataReceived
               /\ dataIndex \in Index
               /\ SPI_buffer'[dataIndex] = Received
          ELSE /\ dataReceived' = TRUE
               /\ dataIndex' = 0
               /\ receivedBytes' = receivedBytes
               /\ \A k \in Index : k < dataIndex => SPI_buffer'[k] = SPI_buffer[k]]_vars

\* C24 as stated: a step of the ISR that receives the terminator leaves every
\* element of SPI_buffer unchanged.
C24_TerminatorNotStored ==
    [][(rx' # rx /\ Received = DATA_END_CHAR) => SPI_buffer' = SPI_buffer]_vars

\* C24, amended: a step of the ISR that receives the terminator with the
\* cursor at c stores the terminator at SPI_buffer[c] when c is an index of
\* the array, and leaves every other element of SPI_buffer unchanged.
C24_TerminatorStoredAtCursor ==
    [][(rx' # rx /\ Received = DATA_END_CHAR) =>
          /\ \A k \in Index : k # dataIndex => SPI_buffer'[k] = SPI_buffer[k]
          /\ dataIndex \in Index => SPI_buffer'[dataIndex] = DATA_END_CHAR]_vars

C24_Witness ==
    /\ rx = <<1, DATA_END_CHAR>>
    /\ SPI_buffer[0] = 1 /\ SPI_buffer[1] = DATA_END_CHAR
    /\ dataReceived /\ dataIndex = 0

\* C25: after an uninterrupted SPI_readAll that returns true for a message of
\* k payload bytes, dataReceived = false, receivedBytes = 0 and SPI_buffer[i]
\* = 0 for every i in 0 .. k-1.
C25_SwapPostState ==
    (pc = "ret" /\ retv = TRUE /\ Uninterrupted /\ EndsMessage(rx)) =>
        /\ dataReceived = FALSE
        /\ receivedBytes = 0
        /\ \A k \in Index : k < Len(LastMessage(rx)) => SPI_buffer[k] = 0

\* C26: in every state in which dataReceived is set and no byte has been
\* received since the terminator that set it, receivedBytes is the number of
\* payload bytes of the message just completed, which is the index in
\* SPI_buffer of the first terminator.
C26_ByteCountIsMessageLength ==
    (dataReceived = TRUE /\ EndsMessage(rx)) =>
        /\ receivedBytes = Len(LastMessage(rx))
        /\ receivedBytes \in Index
        /\ SPI_buffer[receivedBytes] = DATA_END_CHAR
        /\ \A k \in Index : k < receivedBytes => SPI_buffer[k] # DATA_END_CHAR

\* C27: SPI_data is written only during the swap: no step of the receive ISR
\* changes SPI_data, and the only steps that change it are steps of an
\* SPI_readAll call that found dataReceived set.
C27_StableBufferWrittenOnlyBySwap ==
    [][/\ rx' # rx => SPI_data' = SPI_data
       /\ SPI_data' # SPI_data => InSwap]_vars

\* C28 as stated: SPI_buffer is mutated only by the receive ISR; no step of
\* the foreground, SPI_readAll included, writes an element of it.
C28_WorkingBufferWrittenOnlyByIsr ==
    [][SPI_buffer' # SPI_buffer => rx' # rx]_vars

\* C28, amended: SPI_buffer is changed only by the receive ISR and by
\* SPI_readAll inside a swap; as long as the accesses stay inside the arrays
\* the foreground's only write is that of the zeroing loop, which clears one
\* element below receivedBytes.
C28_WorkingBufferWrittenByIsrAndSwap ==
    [][SPI_buffer' # SPI_buffer =>
          \/ rx' # rx
          \/ /\ InSwap
             /\ ~ub' => /\ pc = "zero"
                         /\ i < receivedBytes
                         /\ SPI_buffer' = [SPI_buffer EXCEPT ![i] = 0]]_vars

C28_Witness ==
    /\ pc = "ret" /\ retv /\ Uninterrupted
    /\ rx = <<1, 3, DATA_END_CHAR>>
    /\ SPI_buffer = [k \in Index |-> IF k = 2 THEN DATA_END_CHAR ELSE 0]
    /\ SPI_data[0] = 1 /\ SPI_data[1] = 3

--------------------------------------------------------------------------
(* Streams of messages under prompt polling *)

\* C29: a payload S that contains the terminator at position j (first
\* occurrence), followed by the terminator, fed to the ISR from power-on with
\* the foreground polling after every byte: the SPI_readAll after the first
\* terminator returns true with S[0 .. j) in SPI_data, and the bytes of S
\* behind position j are not discarded: the SPI_readAll after the second
\* terminator returns true with them as the next message, so that two
\* messages have been delivered.
C29_TerminatorCollisionSplits ==
    (prompt /\ AllShort(rx)) =>
        /\ (pc = "ret" /\ retv /\ NumTerminators(rx) = 1) =>
              /\ nTrue = 0
              /\ EndsMessage(rx)
              /\ HoldsPrefix(SPI_data, ButLast(rx))
        /\ (pc = "ret" /\ retv /\ NumTerminators(rx) = 2) =>
              /\ nTrue = 1
              /\ EndsMessage(rx)
              /\ HoldsPrefix(SPI_data, LastMessage(rx))
        /\ (pc = "main" /\ polled /\ NumTerminators(rx) = 2) => nTrue = 2

C29_Witness ==
    /\ prompt /\ pc = "ret" /\ retv
    /\ rx = <<1, DATA_END_CHAR, 3, 1, DATA_END_CHAR>>
    /\ nTrue = 1
    /\ SPI_data[0] = 3 /\ SPI_data[1] = 1

\* The position in s of its n-th terminator (n from 1).
TerminatorAt(s, n) ==
    CHOOSE k \in 1 .. Len(s) :
        s[k] = DATA_END_CHAR /\ NumTerminators(SubSeq(s, 1, k)) = n

\* The payload of the n-th message of s.
NthMessage(s, n) == MessageAt(s, TerminatorAt(s, n))

\* The step with which a call of SPI_readAll that took the swap completes.
CompletesSwap == pc = "clearCount" /\ pc' = "ret"

\* C30: when every message is shorter than DATA_LENGTH and no byte arrives
\* inside a swap or while a framed message waits to be taken up (each
\* terminator is followed by one uninterrupted swap before the next message
\* begins), the i-th call of SPI_readAll that returns true is the one for the
\* i-th message of the stream and leaves that message's bytes at the start of
\* SPI_data; and once the foreground has polled after the last terminator
\* there have been as many true returns as messages: none lost, duplicated
\* or reordered.
C30_InOrderDelivery ==
    /\ [][(CompletesSwap /\ clean /\ AllShort(rx)) =>
              /\ nTrue + 1 = NumTerminators(rx)
              /\ HoldsPrefix(SPI_data', NthMessage(rx, nTrue + 1))]_vars
    /\ []((clean /\ AllShort(rx) /\ pc = "main" /\ polled) =>
              nTrue = NumTerminators(rx))

C30_Witness ==
    /\ clean /\ ~prompt /\ pc = "ret" /\ retv
    /\ rx = <<1, 3, DATA_END_CHAR, 3, DATA_END_CHAR>>
    /\ nTrue = 1
    /\ SPI_data[0] = 3 /\ SPI_data[1] = 3

--------------------------------------------------------------------------
(* A slow foreground: several messages between two uninterrupted polls *)

\* The bytes received since the last poll.
Window == Since(rx, lastPoll)

\* The last poll took place between two messages.
PolledAtBoundary == lastPoll = 0 \/ rx[lastPoll] = DATA_END_CHAR

\* The payload bytes among the bytes of s.
PayloadBytes(s) == Len(s) - NumTerminators(s)

\* C31: when two or more complete messages, with fewer than DATA_LENGTH
\* payload bytes in total, have arrived since the last poll and nothing
\* after them, the next uninterrupted SPI_readAll returns true with the
\* payload of the last of them at the start of SPI_data; the call that
\* follows a true return with no byte in between returns false, so the
\* earlier messages are never delivered.
C31_SingleSlotMailbox ==
    /\ (/\ pc = "ret"
        /\ PolledAtBoundary
        /\ EndsMessage(rx)
        /\ NumTerminators(Window) >= 2
        /\ PayloadBytes(Window) < DATA_LENGTH)
           => /\ retv = TRUE
              /\ HoldsPrefix(SPI_data, LastMessage(rx))
    /\ (pc = "ret" /\ fresh) => retv = FALSE

C31_Witness ==
    /\ pc = "ret" /\ retv = TRUE
    /\ rx = <<3, DATA_END_CHAR, 3, DATA_END_CHAR, 1, DATA_END_CHAR>>
    /\ lastPoll = 2
    /\ nTrue = 1
    /\ SPI_data[0] = 1

\* The step with which the copy loop of lines 143-147 ends.
CopyEnds == pc = "copyTest" /\ pc' = "zero"

\* The bytes the copy loop has put into SPI_data when it ends.
Copied == [k \in 1 .. i |-> SPI_data[k - 1]]

\* The bytes of the message of s still in progress.
InProgress(s) == Since(s, PrevTerminator(s, Len(s) + 1))

\* C32: with SPI_readAll never preempted and every message shorter than
\* DATA_LENGTH, whatever has arrived of the next message before the poll,
\* the bytes a true call copies into SPI_data are the payload of one message
\* received in full, and after the call the bytes of the message in progress
\* are still in SPI_buffer where the ISR put them.
C32_SlowForegroundKeepsMessages ==
    /\ [][(CopyEnds /\ AllShort(rx)) =>
              /\ i < DATA_LENGTH
              /\ Copied \in Messages(rx)]_vars
    /\ []((pc = "ret" /\ retv = TRUE /\ AllShort(rx)) =>
              HoldsPrefix(SPI_buffer, InProgress(rx)))

\* C33: with SPI_readAll never preempted and every message shorter than
\* DATA_LENGTH, however many messages complete between two polls, the swap
\* stays inside the arrays: receivedBytes is at most DATA_LENGTH while it
\* runs, flushBuffer, the copy loop and the zeroing loop write only indices
\* below DATA_LENGTH, and the copy loop reads only such indices until it
\* stops at a terminator.
C33_SwapStaysInBounds ==
    AllShort(rx) =>
        /\ InSwap => receivedBytes <= DATA_LENGTH
        /\ (pc = "flush" /\ i < size) => i < DATA_LENGTH
        /\ pc \in {"copyTest", "copyStore"} => i < DATA_LENGTH
        /\ (pc = "zero" /\ i < ZeroBound) => i < DATA_LENGTH
        /\ pc # "astray"

--------------------------------------------------------------------------
(* The port register around a select-guarded operation *)

\* The bits of the port other than the select bit n.
OtherBits(n) == (0 .. 7) \ {n}

\* No step changes a bit of the port other than the select bit of the call.
OtherBitsKept ==
    \A k \in OtherBits(SS_PORTxn') : Bit(PORT', k) = Bit(PORT, k)

\* C34: in a select-guarded operation called with DEFAULT_SS_CONTROL or
\* INVERTED_SS_CONTROL no step, from the call to the return, changes a bit
\* of the port register other than the addressed select bit: those bits are
\* the same during the window and at return as at entry.
C34_OnlySelectBitChanges ==
    [][(SSmode' \in {DEFAULT_SS_CONTROL, INVERTED_SS_CONTROL}) => OtherBitsKept]_vars

C34_Witness ==
    /\ mpc = "ret" /\ calls = 1
    /\ SSmode = INVERTED_SS_CONTROL /\ SS_PORTxn = 3
    /\ op = "SPI_transmitUint8_t" /\ Len(sent) = 2 /\ done = 2
    /\ PORT = 165

\* C35: in a select-guarded operation called with any SSmode, the two
\* defined values or another, no step changes a bit of the port register
\* other than the addressed select bit.
C35_UndefinedModeKeepsOtherBits == [][OtherBitsKept]_vars

\* C36: for an array of more than 8 bytes hexArrayToUint64_t returns the
\* big-endian value of the array modulo 2^64: the byte of weight 256^k of the
\* result is the k-th byte from the end for every k < 8, the result is that
\* of the function on the last 8 bytes alone, and the bytes before them have
\* no effect.
C36_LongArrayTruncates ==
    ("hexArrayToUint64_t" \in applied /\ Len(array) > 8) =>
        /\ \A k \in Limbs : combinedHex[k] = array[Len(array) - k]
        /\ combinedHex =
              hexArrayToUint64_t(SubSeq(array, Len(array) - 7, Len(array)), 8)

C36_Witness ==
    /\ "hexArrayToUint64_t" \in applied
    /\ array = <<255, 128, 255, 0, 0, 13, 1, 2, 3>>
    /\ combinedHex = Hex64(<<128, 255, 0, 0, 13, 1, 2, 3>>)

====
